---- MODULE Spec2Model ----
(***************************************************************************)
(* NameDrop: the filename compatibility engine (platform registry,         *)
(* restriction merge, LED severity, compatibility filter) and the window   *)
(* state that drives it (file drop, platform buttons, ignore characters,   *)
(* random name, text edit, rename).                                        *)
(*                                                                         *)
(* A character is a TLA+ string: a printable ASCII character stands for    *)
(* itself (apostrophe and backquote excepted), any other character is     *)
(* written "U+xxxx".  A name is a sequence of characters.                  *)
(***************************************************************************)
EXTENDS Integers, Sequences, FiniteSets, TLC

VARIABLES
    \* ---- engine calls (pure functions applied to drawn inputs) ----
    in_name,        \* the name handed to the engine
    in_platforms,   \* the set of profile ids handed to the engine
    in_ignore,      \* the ignore set handed to the engine
    visit,          \* the order in which a merge visits the profile ids
    pc,             \* which engine call has been made last
    out1,           \* sanitize(in_name)
    out2,           \* sanitize(out1)
    leds,           \* profile id -> LED colour of in_name
    merged,         \* result of get_combined_restrictions(visit)
    merged_len,     \* result of the min-max_filename_length loop over visit
    led_flags,      \* profile id -> the has_* locals of update_platform_leds
    non_standard,   \* find_non_standard_ascii(in_name, in_ignore)
    stripped,       \* remove_bad_chars(in_name, in_ignore)
    lookup,         \* outcome of the calls made with the ids in_platforms
    valid,          \* is_valid_filename(in_name)
    \* ---- the window (NameDropApp) and the directory of the dropped files ----
    fs,                         \* names that exist in the directory
    current_file_path,          \* the tracked file (its name in the directory)
    current_file_name,
    processed_files,            \* paths of ignored files
    selected_platforms,
    platform_selection_order,
    btn_checked,                \* platform buttons that are checked
    compatibility_filtered_name,
    ignored,                    \* what get_ignore_chars() returns
    display_text,               \* text of the FileNameDisplay
    display_bad,                \* bad_chars last handed to the FileNameDisplay
    app_leds,                   \* colour of the window's LEDs
    enabled,                    \* the action buttons that are enabled
    renames,                    \* number of renames done on disk
    last_rename                 \* what the last step's perform_rename did

engine_vars == <<in_name, in_platforms, in_ignore, visit, pc, out1, out2,
                 leds, merged, merged_len, led_flags, non_standard, stripped, lookup,
                 valid>>

app_vars == <<fs, current_file_path, current_file_name, processed_files,
              selected_platforms, platform_selection_order, btn_checked,
              compatibility_filtered_name, ignored, display_text,
              display_bad, app_leds, enabled, renames, last_rename>>

vars == <<engine_vars, app_vars>>

None == "None"

(***************************************************************************)
(* Bounds                                                                  *)
(***************************************************************************)
MaxLen == 3
MaxRenames == 1

(***************************************************************************)
(* Characters                                                              *)
(***************************************************************************)
E_ACUTE == "U+00E9"    \* an accented letter of ACCENT_MAP
EURO    == "U+20AC"    \* a non-ASCII character without ACCENT_MAP entry
NUL     == "U+0000"
CTRL1   == "U+0001"
TAB     == "U+0009"
DEL     == "U+007F"
AE_LIG  == "U+00E6"    \* an ACCENT_MAP letter with a two-letter equivalent

\* ord(char) for the characters the model draws; every other character the
\* registry mentions is printable ASCII.
NonPrintableOrd ==
    [c \in {E_ACUTE, EURO, NUL, CTRL1, TAB, DEL, AE_LIG} |->
        CASE c = E_ACUTE -> 233
          [] c = AE_LIG  -> 230
          [] c = EURO    -> 8364
          [] c = NUL     -> 0
          [] c = CTRL1   -> 1
          [] c = TAB     -> 9
          [] c = DEL     -> 127]

InPrintableRange(c) ==
    IF c \in DOMAIN NonPrintableOrd
    THEN 32 <= NonPrintableOrd[c] /\ NonPrintableOrd[c] <= 126
    ELSE TRUE

\* str.upper() on one character
UpperChar(c) ==
    CASE c = "a" -> "A"
      [] c = "c" -> "C"
      [] c = "o" -> "O"
      [] c = "n" -> "N"
      [] c = "b" -> "B"
      [] c = "t" -> "T"
      [] c = "x" -> "X"
      [] c = E_ACUTE -> "U+00C9"
      [] c = AE_LIG -> "U+00C6"
      [] OTHER -> c

Upper(s) == [i \in 1..Len(s) |-> UpperChar(s[i])]

\* str.strip() without argument strips whitespace
Whitespace == {" ", TAB}

(***************************************************************************)
(* Python string primitives                                                *)
(***************************************************************************)
CharsOf(s) == {s[i] : i \in 1..Len(s)}

Contains(s, c) == \E i \in 1..Len(s) : s[i] = c

\* s.replace(c, "")
Replace(s, c) == SelectSeq(s, LAMBDA x : x # c)

\* s.rstrip(chars) / s.lstrip(chars) / s.strip(chars)
RECURSIVE RStrip(_, _)
RStrip(s, chars) ==
    IF s # <<>> /\ s[Len(s)] \in chars
    THEN RStrip(SubSeq(s, 1, Len(s) - 1), chars)
    ELSE s

RECURSIVE LStrip(_, _)
LStrip(s, chars) ==
    IF s # <<>> /\ s[1] \in chars
    THEN LStrip(Tail(s), chars)
    ELSE s

Strip(s, chars) == LStrip(RStrip(s, chars), chars)

EndsWith(s, c) == Len(s) > 0 /\ s[Len(s)] = c

StartsWith(s, c) == Len(s) > 0 /\ s[1] = c

\* s.rfind(c, 0, i) + 1 and s.find(c, i - 1) + 1: the last index <= i, the
\* first index >= i, at which c stands (0 when there is none)
RECURSIVE LastIndex(_, _, _)
LastIndex(s, c, i) ==
    IF i = 0 \/ s[i] = c THEN i ELSE LastIndex(s, c, i - 1)

RECURSIVE FirstIndex(_, _, _)
FirstIndex(s, c, i) ==
    IF i > Len(s) THEN 0
    ELSE IF s[i] = c THEN i ELSE FirstIndex(s, c, i + 1)

\* s.rsplit(".", 1) for a string that contains a period: <<head, tail>>
RSplitPeriod(s) ==
    LET k == LastIndex(s, ".", Len(s))
    IN  <<SubSeq(s, 1, k - 1), SubSeq(s, k + 1, Len(s))>>

\* s.split(".")[0]
SplitPeriodFirst(s) ==
    IF Contains(s, ".")
    THEN SubSeq(s, 1, FirstIndex(s, ".", 1) - 1)
    ELSE s

(***************************************************************************)
(* PLATFORM_RESTRICTIONS                                                   *)
(***************************************************************************)
WindowsExcluded == {"<", ">", ":", "\"", "|", "?", "*", "\\", "/"}

CloudProblematic ==
    {"!", "@", "#", "$", "%", "^", "&", "(", ")", "[", "]", "{", "}",
     ";", ",", "=", "+"}

WindowsReserved ==
    {<<"C","O","N">>, <<"P","R","N">>, <<"A","U","X">>, <<"N","U","L">>,
     <<"C","O","M","1">>, <<"C","O","M","2">>, <<"C","O","M","3">>,
     <<"C","O","M","4">>, <<"C","O","M","5">>, <<"C","O","M","6">>,
     <<"C","O","M","7">>, <<"C","O","M","8">>, <<"C","O","M","9">>,
     <<"L","P","T","1">>, <<"L","P","T","2">>, <<"L","P","T","3">>,
     <<"L","P","T","4">>, <<"L","P","T","5">>, <<"L","P","T","6">>,
     <<"L","P","T","7">>, <<"L","P","T","8">>, <<"L","P","T","9">>,
     <<".">>, <<".", ".">>}

PLATFORM_RESTRICTIONS ==
    [p \in {"Everything", "Windows", "macOS", "Linux", "Cloud", "FAT32"} |->
      CASE p = "Everything" ->
             [excluded_chars |-> WindowsExcluded,
              problematic_chars |-> CloudProblematic,
              excluded_positions |->
                  <<"trailing_space", "trailing_period", "leading_space">>,
              reserved_names |-> {},
              max_path_length |-> 260,
              max_filename_length |-> 255,
              additional_restrictions |->
                  {"no_space_period_after_ext", "no_spaces_only"}]
        [] p = "Windows" ->
             [excluded_chars |-> WindowsExcluded,
              problematic_chars |-> {},
              excluded_positions |-> <<"trailing_space", "trailing_period">>,
              reserved_names |-> WindowsReserved,
              max_path_length |-> 260,
              max_filename_length |-> 255,
              additional_restrictions |->
                  {"no_space_period_after_ext", "no_spaces_only"}]
        [] p = "macOS" ->
             [excluded_chars |-> {":", "/"},
              problematic_chars |-> {},
              excluded_positions |-> <<>>,
              reserved_names |-> {},
              max_path_length |-> 255,
              max_filename_length |-> 255,
              additional_restrictions |-> {}]
        [] p = "Linux" ->
             [excluded_chars |-> {"/"},
              problematic_chars |-> {},
              excluded_positions |-> <<>>,
              reserved_names |-> {},
              max_path_length |-> 255,
              max_filename_length |-> 255,
              additional_restrictions |-> {}]
        [] p = "Cloud" ->
             [excluded_chars |-> WindowsExcluded,
              problematic_chars |-> CloudProblematic,
              excluded_positions |-> <<"trailing_space", "trailing_period">>,
              reserved_names |-> WindowsReserved,
              max_path_length |-> 260,
              max_filename_length |-> 255,
              additional_restrictions |->
                  {"no_space_period_after_ext", "no_spaces_only"}]
        [] p = "FAT32" ->
             [excluded_chars |-> WindowsExcluded,
              problematic_chars |-> {},
              excluded_positions |-> <<"trailing_space", "trailing_period">>,
              reserved_names |-> WindowsReserved,
              max_path_length |-> 260,
              max_filename_length |-> 255,
              additional_restrictions |->
                  {"no_space_period_after_ext", "no_spaces_only"}]]

ProfileIds == DOMAIN PLATFORM_RESTRICTIONS

SpecificIds == ProfileIds \ {"Everything"}

(***************************************************************************)
(* CharacterUtils                                                          *)
(***************************************************************************)
\* an ignore_chars argument that is omitted (the default None): a set that
\* holds no character
NoArg == {None}

\* what a call that raises TypeError gives in place of a string
TypeError == <<"TypeError">>

\* is_standard_ascii(char, ignore_chars)
is_standard_ascii(char, ignore_chars) ==
    IF ignore_chars # NoArg /\ ignore_chars # {} /\ char \in ignore_chars
    THEN TRUE
    ELSE InPrintableRange(char)

\* find_non_standard_ascii(text, ignore_chars)
find_non_standard_ascii(text, ignore_chars) ==
    {c \in CharsOf(text) : ~is_standard_ascii(c, ignore_chars)}

(***************************************************************************)
(* NameDropApp.get_combined_restrictions and the max_filename_length loop  *)
(* of get_length_restriction_chars.  The code iterates over a Python set,  *)
(* whose order is unspecified: the merge takes the visiting order as a     *)
(* sequence.                                                               *)
(***************************************************************************)
Range(f) == {f[i] : i \in DOMAIN f}

RECURSIVE SetToSeq(_)
SetToSeq(S) ==
    IF S = {} THEN <<>>
    ELSE LET x == CHOOSE y \in S : TRUE IN <<x>> \o SetToSeq(S \ {x})

EmptyRestrictions ==
    [excluded_chars |-> {}, problematic_chars |-> {}, excluded_positions |-> <<>>]

\* the loop body with assignment in place of update / extend
MergeStep_Overwrite(acc, platform) ==
    [excluded_chars |-> platform.excluded_chars,
     problematic_chars |-> platform.problematic_chars,
     excluded_positions |-> platform.excluded_positions]

\* the loop body without the extend of excluded_positions
MergeStep_DropPositions(acc, platform) ==
    [excluded_chars |-> acc.excluded_chars \cup platform.excluded_chars,
     problematic_chars |-> acc.problematic_chars \cup platform.problematic_chars,
     excluded_positions |-> acc.excluded_positions]

\* one iteration of the loop: update / update / extend
MergeStep(acc, platform) ==
    [excluded_chars |-> acc.excluded_chars \cup platform.excluded_chars,
     problematic_chars |-> acc.problematic_chars \cup platform.problematic_chars,
     excluded_positions |-> acc.excluded_positions \o platform.excluded_positions]

RECURSIVE MergeLoop(_, _)
MergeLoop(order, acc) ==
    IF order = <<>> THEN acc
    ELSE MergeLoop(Tail(order), MergeStep(acc, PLATFORM_RESTRICTIONS[Head(order)]))

\* excluded_positions = list(set(excluded_positions)): a duplicate-free list in
\* unspecified order, of which the callers only test membership; the merged
\* record carries it as the set of its elements.
get_combined_restrictions(order) ==
    LET m == IF order = <<>> THEN EmptyRestrictions
             ELSE MergeLoop(order, EmptyRestrictions)
    IN  [excluded_chars |-> m.excluded_chars,
         problematic_chars |-> m.problematic_chars,
         excluded_positions |-> Range(m.excluded_positions)]

\* one iteration of the min_max_length loop.  An optional length is an
\* integer in which 0 stands for the falsy values (None and 0) that the
\* code's truth tests do not tell apart.
MinLenStep(min_max_length, max_len) ==
    IF max_len # 0 /\ (min_max_length = 0 \/ max_len < min_max_length)
    THEN max_len
    ELSE min_max_length

RECURSIVE MinLenLoop(_, _)
MinLenLoop(order, min_max_length) ==
    IF order = <<>> THEN min_max_length
    ELSE MinLenLoop(Tail(order),
            IF Head(order) \in DOMAIN PLATFORM_RESTRICTIONS
            THEN MinLenStep(min_max_length,
                     PLATFORM_RESTRICTIONS[Head(order)].max_filename_length)
            ELSE min_max_length)

\* get_length_restriction_chars(file_name) for the selected platforms
get_length_restriction_chars(file_name, platforms) ==
    IF platforms = {} \/ file_name = <<>> THEN {}
    ELSE LET min_max_length == MinLenLoop(SetToSeq(platforms), 0)
         IN  IF min_max_length # 0 /\ Len(file_name) > min_max_length
             THEN CharsOf(SubSeq(file_name, min_max_length + 1, Len(file_name)))
             ELSE {}

(***************************************************************************)
(* NameDropApp.apply_compatibility_filter: the filtered name               *)
(***************************************************************************)
\* the removal loops: for char in chars: if char != " " and char not in
\* ignore_chars: name = name.replace(char, "")
RemoveStep_NoIgnore(name, char, ignore_chars) ==
    IF char # " " THEN Replace(name, char) ELSE name

RemoveStep(name, char, ignore_chars) ==
    IF char # " " /\ char \notin ignore_chars THEN Replace(name, char) ELSE name

\* the loop over chars; replace() of a character that does not occur leaves
\* the name as it is, so the loop visits the characters that occur
RECURSIVE RemoveChars(_, _, _)
RemoveChars(name, chars, ignore_chars) ==
    LET occurring == chars \cap CharsOf(name)
    IN  IF occurring = {} THEN name
        ELSE LET c == CHOOSE x \in occurring : TRUE
             IN  RemoveChars(RemoveStep(name, c, ignore_chars), chars \ {c},
                             ignore_chars)

\* the trailing_period branch without the fallback for two empty parts
StripTrailingPeriod_NoFallback(filtered_name) ==
    IF Contains(filtered_name, ".")
    THEN LET parts == RSplitPeriod(filtered_name)
             name_part == RStrip(parts[1], {"."})
             ext_part == parts[2]
         IN  name_part \o <<".">> \o ext_part
    ELSE RStrip(filtered_name, {"."})

\* the trailing_period branch
StripTrailingPeriod(filtered_name) ==
    IF Contains(filtered_name, ".")
    THEN LET parts == RSplitPeriod(filtered_name)
             name_part == RStrip(parts[1], {"."})
             ext_part == parts[2]
         IN  IF name_part # <<>> \/ ext_part # <<>>
             THEN name_part \o <<".">> \o ext_part
             ELSE RStrip(filtered_name, {"."})
    ELSE RStrip(filtered_name, {"."})

\* trailing_space handled with strip(" ") in place of rstrip(" ")
ApplyPositions_StripBoth(name, excluded_positions) ==
    LET s1 == IF "trailing_space" \in excluded_positions
              THEN Strip(name, {" "}) ELSE name
        s2 == IF "trailing_period" \in excluded_positions
              THEN StripTrailingPeriod(s1) ELSE s1
        s3 == IF "leading_space" \in excluded_positions
              THEN LStrip(s2, {" "}) ELSE s2
        s4 == IF "leading_period" \in excluded_positions
              THEN LStrip(s3, {"."}) ELSE s3
    IN  s4

ApplyPositions(name, excluded_positions) ==
    LET s1 == IF "trailing_space" \in excluded_positions
              THEN RStrip(name, {" "}) ELSE name
        s2 == IF "trailing_period" \in excluded_positions
              THEN StripTrailingPeriod(s1) ELSE s1
        s3 == IF "leading_space" \in excluded_positions
              THEN LStrip(s2, {" "}) ELSE s2
        s4 == IF "leading_period" \in excluded_positions
              THEN LStrip(s3, {"."}) ELSE s3
    IN  s4

\* filtered_name of apply_compatibility_filter for a non-empty name and a
\* non-empty selection
Sanitize(name, platforms, ignore_chars) ==
    LET restrictions == get_combined_restrictions(SetToSeq(platforms))
        f1 == RemoveChars(name, restrictions.excluded_chars, ignore_chars)
        f2 == RemoveChars(f1, restrictions.problematic_chars, ignore_chars)
    IN  ApplyPositions(f2, restrictions.excluded_positions)

(***************************************************************************)
(* NameDropApp.update_platform_leds: the colour of one platform's LED      *)
(***************************************************************************)
\* the comparison without upper()
HasReservedName_CaseSensitive(file_name, reserved_names) ==
    IF reserved_names # {}
    THEN LET name_without_ext ==
                 IF Contains(file_name, ".")
                 THEN RSplitPeriod(file_name)[1]
                 ELSE file_name
         IN  name_without_ext \in reserved_names
    ELSE FALSE

HasReservedName(file_name, reserved_names) ==
    IF reserved_names # {}
    THEN LET name_without_ext ==
                 IF Contains(file_name, ".")
                 THEN Upper(RSplitPeriod(file_name)[1])
                 ELSE Upper(file_name)
         IN  name_without_ext \in {Upper(n) : n \in reserved_names}
    ELSE FALSE

HasPositionIssues(file_name, excluded_positions) ==
    \/ "trailing_space" \in excluded_positions /\ EndsWith(file_name, " ")
    \/ /\ "trailing_period" \in excluded_positions
       /\ IF Contains(file_name, ".")
          THEN EndsWith(RSplitPeriod(file_name)[1], ".") \/ EndsWith(file_name, ".")
          ELSE EndsWith(file_name, ".")
    \/ "leading_space" \in excluded_positions /\ StartsWith(file_name, " ")
    \/ "leading_period" \in excluded_positions /\ StartsWith(file_name, ".")

\* the test made on the end of the whole name
NoSpacePeriodAfterExt_WholeName(file_name) ==
    /\ Contains(file_name, ".")
    /\ (EndsWith(file_name, " ") \/ EndsWith(file_name, "."))

NoSpacePeriodAfterExt(file_name) ==
    /\ Contains(file_name, ".")
    /\ LET name_part == RSplitPeriod(file_name)[1]
       IN  EndsWith(name_part, " ") \/ EndsWith(name_part, ".")

NoSpacesOnly(file_name) ==
    Strip(file_name, Whitespace) = <<>> /\ file_name # <<>>

\* the test of max_filename_length alone
LengthExceeded_NoPathBudget(file_name, platform) ==
    /\ platform.max_filename_length # 0
    /\ Len(file_name) > platform.max_filename_length

LengthExceeded(file_name, platform) ==
    \/ /\ platform.max_filename_length # 0
       /\ Len(file_name) > platform.max_filename_length
    \/ /\ platform.max_path_length # 0
       /\ Len(file_name) > platform.max_path_length - 50

HasAdditionalRestrictions(file_name, platform) ==
    \/ LengthExceeded(file_name, platform)
    \/ /\ "no_space_period_after_ext" \in platform.additional_restrictions
       /\ NoSpacePeriodAfterExt(file_name)
    \/ /\ "no_spaces_only" \in platform.additional_restrictions
       /\ NoSpacesOnly(file_name)

\* the chain with the orange test ahead of the purple test
PickColor_OrangeFirst(has_excluded, has_purple, has_problematic, has_bad_chars) ==
    IF has_excluded THEN "red"
    ELSE IF has_problematic THEN "orange"
    ELSE IF has_purple THEN "purple"
    ELSE IF has_bad_chars THEN "yellow"
    ELSE "green"

\* the if / elif chain that picks the colour
PickColor(has_excluded, has_purple, has_problematic, has_bad_chars) ==
    IF has_excluded THEN "red"
    ELSE IF has_purple THEN "purple"
    ELSE IF has_problematic THEN "orange"
    ELSE IF has_bad_chars THEN "yellow"
    ELSE "green"

\* in_file_name: the characters for which "char in file_name" holds
LedColor(file_name, in_file_name, platform_key, ignore_chars) ==
    LET platform == PLATFORM_RESTRICTIONS[platform_key]
        excluded_chars == platform.excluded_chars \ ignore_chars
        problematic_chars == platform.problematic_chars \ ignore_chars
        has_excluded == \E char \in excluded_chars : char \in in_file_name
        has_problematic == \E char \in problematic_chars : char \in in_file_name
        has_position_issues ==
            HasPositionIssues(file_name, Range(platform.excluded_positions))
        has_reserved_name == HasReservedName(file_name, platform.reserved_names)
        has_additional_restrictions == HasAdditionalRestrictions(file_name, platform)
        bad_chars == find_non_standard_ascii(file_name, ignore_chars) \ ignore_chars
    IN  PickColor(has_excluded,
                  has_additional_restrictions \/ has_position_issues
                      \/ has_reserved_name,
                  has_problematic,
                  bad_chars # {})

\* update_platform_leds(file_name) over the LEDs led_keys
update_platform_leds(file_name, ignore_chars, led_keys) ==
    IF file_name = <<>>
    THEN [p \in led_keys |-> "gray"]
    ELSE LET in_file_name == CharsOf(file_name)
         IN  [p \in led_keys |->
                 IF p \notin DOMAIN PLATFORM_RESTRICTIONS THEN "gray"
                 ELSE LedColor(file_name, in_file_name, p, ignore_chars)]

\* the locals has_reserved_name, has_position_issues and
\* has_additional_restrictions of one iteration of the loop over the LEDs
LedFlags(file_name, platform_key) ==
    LET platform == PLATFORM_RESTRICTIONS[platform_key]
    IN  [has_reserved_name |->
             HasReservedName(file_name, platform.reserved_names),
         has_position_issues |->
             HasPositionIssues(file_name, Range(platform.excluded_positions)),
         has_additional_restrictions |->
             HasAdditionalRestrictions(file_name, platform)]

(***************************************************************************)
(* CharacterUtils: the fixes                                               *)
(***************************************************************************)
\* ACCENT_MAP on the accented characters the model draws
ACCENT_MAP ==
    [c \in {E_ACUTE, AE_LIG} |-> IF c = E_ACUTE THEN <<"e">> ELSE <<"a", "e">>]

\* the loop body with the ACCENT_MAP test ahead of the ignore test
ReplaceStep_TableFirst(char, ignore_chars) ==
    IF char \in DOMAIN ACCENT_MAP THEN ACCENT_MAP[char]
    ELSE <<char>>

\* what one iteration of the loop appends to result
ReplaceStep(char, ignore_chars) ==
    IF char \in ignore_chars THEN <<char>>
    ELSE IF char \in DOMAIN ACCENT_MAP THEN ACCENT_MAP[char]
    ELSE IF is_standard_ascii(char, ignore_chars) THEN <<char>>
    ELSE <<char>>

RECURSIVE ReplaceLoop(_, _)
ReplaceLoop(text, ignore_chars) ==
    IF text = <<>> THEN <<>>
    ELSE ReplaceStep(Head(text), ignore_chars)
             \o ReplaceLoop(Tail(text), ignore_chars)

\* replace_accented_chars(text, ignore_chars): "char in ignore_chars" raises
\* TypeError when ignore_chars is None and the loop runs at all
replace_accented_chars(text, ignore_chars) ==
    IF ignore_chars = NoArg /\ text # <<>> THEN TypeError
    ELSE ReplaceLoop(text, ignore_chars)

\* the loop without the test
remove_bad_chars_KeepAll(text, ignore_chars) ==
    text

remove_bad_chars(text, ignore_chars) ==
    SelectSeq(text, LAMBDA char : is_standard_ascii(char, ignore_chars))

auto_fix_name(text, ignore_chars) ==
    LET replaced == replace_accented_chars(text, ignore_chars)
    IN  IF replaced = TypeError THEN TypeError
        ELSE remove_bad_chars(replaced, ignore_chars)

(***************************************************************************)
(* FileOperations                                                          *)
(***************************************************************************)
WINDOWS_INVALID_CHARS == {"<", ">", ":", "\"", "|", "?", "*", "\\"}

MACOS_INVALID_CHARS == {":"}

LINUX_INVALID_CHARS == {"/", NUL}

CONTROL_CHARS ==
    {c \in DOMAIN NonPrintableOrd :
        \/ NonPrintableOrd[c] < 32 /\ NonPrintableOrd[c] # 9
        \/ NonPrintableOrd[c] = 127}

InvalidChars ==
    WINDOWS_INVALID_CHARS \cup MACOS_INVALID_CHARS \cup LINUX_INVALID_CHARS
        \cup CONTROL_CHARS

windows_reserved == WindowsReserved \ {<<".">>, <<".", ".">>}

\* the validator without the test for invalid characters
is_valid_filename_NoCharTest(filename) ==
    IF filename = <<>> \/ Strip(filename, Whitespace) = <<>> THEN FALSE
    ELSE IF SplitPeriodFirst(Upper(filename)) \in windows_reserved THEN FALSE
    ELSE IF EndsWith(filename, ".") \/ EndsWith(filename, " ") THEN FALSE
    ELSE IF Len(filename) > 255 THEN FALSE
    ELSE TRUE

\* is_valid_filename(filename)
is_valid_filename(filename) ==
    IF filename = <<>> \/ Strip(filename, Whitespace) = <<>> THEN FALSE
    ELSE IF \E i \in 1..Len(filename) : filename[i] \in InvalidChars THEN FALSE
    ELSE IF SplitPeriodFirst(Upper(filename)) \in windows_reserved THEN FALSE
    ELSE IF EndsWith(filename, ".") \/ EndsWith(filename, " ") THEN FALSE
    ELSE IF Len(filename) > 255 THEN FALSE
    ELSE TRUE

\* f"BACKUP of {old_path.name}" and f"{base.name} ({counter})"
BackupPrefix == <<"B", "A", "C", "K", "U", "P", " ", "o", "f", " ">>

CounterSuffix(counter) ==
    <<" ", "(", <<"1", "2", "3", "4", "5", "6", "7", "8", "9">>[counter], ")">>

\* the path create_backup writes to: the first free one
RECURSIVE FreeBackupName(_, _, _)
FreeBackupName(files, base, counter) ==
    IF counter = 0
    THEN IF base \in files THEN FreeBackupName(files, base, 1) ELSE base
    ELSE IF base \o CounterSuffix(counter) \in files
         THEN FreeBackupName(files, base, counter + 1)
         ELSE base \o CounterSuffix(counter)

(***************************************************************************)
(* The window: values                                                      *)
(***************************************************************************)
\* a name or path that is None
NoName == <<"None">>

\* Python's "not name"
IsEmptyName(name) == name = NoName \/ name = <<>>

platform_keys == <<"Everything", "Windows", "macOS", "Linux", "Cloud", "FAT32">>

\* the window has an LED for every profile but Everything
LedKeys == {"Windows", "macOS", "Linux", "Cloud", "FAT32"}

ActionButtons == {"ignore", "auto_rename", "remove", "replace", "edit"}

\* get_common_allowed_chars()
CommonAllowedChars ==
    {" ", "-", "_", ".", "(", ")", "[", "]", "{", "}", "!", "@", "#", "$",
     "%", "^", "&", "+", "=", ",", ";", "U+0027", "U+0060"}

NoRename ==
    [called |-> FALSE, requested |-> NoName, final |-> NoName, source |-> NoName,
     result |-> FALSE, attempted |-> FALSE, backup_checked |-> FALSE,
     backup_called |-> FALSE, backup_made |-> FALSE]

\* what the display-side handlers write
View ==
    [text |-> display_text, bad |-> display_bad, leds |-> app_leds,
     filtered |-> compatibility_filtered_name, enabled |-> enabled]

SetView(v) ==
    \E w \in {v} :
        /\ display_text' = w.text
        /\ display_bad' = w.bad
        /\ app_leds' = w.leds
        /\ compatibility_filtered_name' = w.filtered
        /\ enabled' = w.enabled

(***************************************************************************)
(* The window: handlers called by other handlers                           *)
(***************************************************************************)
\* FileNameDisplay.set_file_name(file_name, bad_chars, ignore_chars): the
\* display shows file_name; bad is the set it was handed
set_file_name(v, file_name, bad_chars) ==
    [v EXCEPT !.text = file_name, !.bad = bad_chars]

set_leds(v, file_name, ignore) ==
    [v EXCEPT !.leds = update_platform_leds(file_name, ignore, LedKeys)]

apply_compatibility_filter(v, name, platforms, ignore) ==
    IF IsEmptyName(name)
    THEN [v EXCEPT !.filtered = NoName, !.enabled = @ \ {"rename"}]
    ELSE IF platforms = {}
    THEN set_file_name([v EXCEPT !.filtered = NoName, !.enabled = @ \ {"rename"}],
                       name, find_non_standard_ascii(name, ignore))
    ELSE LET filtered_name == Sanitize(name, platforms, ignore)
             removed_chars == {c \in CharsOf(name) : ~Contains(filtered_name, c)}
             found == find_non_standard_ascii(filtered_name, ignore)
             bad_chars == IF filtered_name # name
                          THEN (found \cup removed_chars) \ ignore
                          ELSE found \ ignore
             v1 == [v EXCEPT !.filtered = filtered_name,
                             !.enabled = IF filtered_name # name
                                         THEN @ \cup {"rename"}
                                         ELSE @ \ {"rename"}]
         IN  set_leds(set_file_name(v1, filtered_name, bad_chars),
                      filtered_name, ignore)

on_file_selected(v, path, name, processed, platforms, ignore) ==
    IF IsEmptyName(path) THEN v
    ELSE IF path \in processed
    THEN set_file_name([v EXCEPT !.enabled = @ \ ActionButtons], name, {})
    ELSE LET bad_chars == find_non_standard_ascii(name, ignore) \ ignore
             v1 == set_leds(v, name, ignore)
             v2 == IF platforms # {}
                   THEN apply_compatibility_filter(v1, name, platforms, ignore)
                   ELSE set_file_name(v1, name, bad_chars)
         IN  [v2 EXCEPT !.enabled =
                 (@ \ {"auto_rename", "remove", "replace"})
                 \cup (IF bad_chars # {} THEN {"auto_rename", "remove", "replace"}
                       ELSE {})
                 \cup {"edit", "ignore"}]

\* the checks of the end of the name alone
check_leading_trailing_issues_TrailingOnly(file_name) ==
    \/ EndsWith(file_name, " ")
    \/ EndsWith(file_name, ".")

check_leading_trailing_issues(file_name) ==
    \/ StartsWith(file_name, " ")
    \/ EndsWith(file_name, " ")
    \/ StartsWith(file_name, ".")
    \/ EndsWith(file_name, ".")
    \/ file_name = <<".">>
    \/ file_name = <<".", ".">>

EngineIdle ==
    /\ in_name = <<>>
    /\ in_platforms = {}
    /\ in_ignore = {}
    /\ visit = <<>>
    /\ pc = "start"
    /\ out1 = None
    /\ out2 = None
    /\ leds = None
    /\ merged = None
    /\ merged_len = None
    /\ led_flags = None
    /\ non_standard = None
    /\ stripped = None
    /\ lookup = None
    /\ valid = None

(***************************************************************************)
(* The window: inputs                                                      *)
(***************************************************************************)
\* the name made of n characters c
Repeat(c, n) == [i \in 1..n |-> c]

\* the files of the directory at start
InitialFiles == {<<E_ACUTE, EURO, "<", "a">>}

\* what the user types into the display or the edit dialog
TypedTexts == {<<"a", "<">>}

\* the length of the tail of letters that generate_random_filename may add
\* (random.randint(200, 260))
RandomTail == 260

\* an output of generate_random_filename: safe, excluded, safe, problematic,
\* non-ASCII, safe parts and the tail
RandomNames ==
    {<<"a", "a", "a", "<", "a", "a", "!", E_ACUTE, "a", "a">>
        \o Repeat("a", RandomTail)}

\* values of get_ignore_chars(): the default field and a field the user typed
AppIgnoreSets == {CommonAllowedChars, {"<", "a"}}

\* the platform buttons the user clicks
ClickedKeys == {"Everything", "Linux"}

(***************************************************************************)
(* The window: state after construction                                    *)
(***************************************************************************)
InitApp ==
    /\ fs = InitialFiles
    /\ current_file_path = NoName
    /\ current_file_name = NoName
    /\ processed_files = {}
    /\ selected_platforms = {}
    /\ platform_selection_order = <<>>
    /\ btn_checked = {}
    /\ compatibility_filtered_name = NoName
    /\ ignored \in AppIgnoreSets
    /\ display_text = <<>>
    /\ display_bad = {}
    /\ app_leds = [p \in LedKeys |-> "gray"]
    /\ enabled = {}
    /\ renames = 0
    /\ last_rename = NoRename

Init == InitApp /\ EngineIdle

(***************************************************************************)
(* The window: event handlers                                              *)
(***************************************************************************)
\* on_files_dropped(files), the first existing file being f
on_files_dropped(f) ==
    /\ f \in fs
    /\ current_file_path' = f
    /\ current_file_name' = f
    /\ selected_platforms' = {}
    /\ platform_selection_order' = <<>>
    /\ btn_checked' = {}
    /\ SetView(on_file_selected([View EXCEPT !.filtered = NoName], f, f,
                                processed_files, {}, ignored))
    /\ last_rename' = NoRename
    /\ UNCHANGED <<fs, processed_files, ignored, renames, engine_vars>>

\* the key added at the end of the selection order
InsertFront_Append(order, platform_key) ==
    SelectSeq(order, LAMBDA x : x # platform_key) \o <<platform_key>>

\* remove(platform_key) if it is in the list, then insert(0, platform_key)
InsertFront(order, platform_key) ==
    <<platform_key>> \o SelectSeq(order, LAMBDA x : x # platform_key)

\* on_platform_button_clicked(platform_key, checked): the click toggles the
\* button, checked is its new state
on_platform_button_clicked(platform_key) ==
    LET checked == platform_key \notin btn_checked
        without(order, k) == SelectSeq(order, LAMBDA x : x # k)
    IN  /\ IF platform_key = "Everything"
           THEN IF checked
                THEN /\ btn_checked' = Range(platform_keys)
                     /\ selected_platforms' = Range(platform_keys)
                     /\ platform_selection_order' =
                            <<"Everything">> \o without(platform_keys, "Everything")
                ELSE /\ btn_checked' = {}
                     /\ selected_platforms' = {}
                     /\ platform_selection_order' = <<>>
           ELSE IF checked
                THEN LET order1 ==
                             IF "Everything" \in selected_platforms
                             THEN without(platform_selection_order, "Everything")
                             ELSE platform_selection_order
                     IN  /\ btn_checked' =
                                (btn_checked \ {"Everything"}) \cup {platform_key}
                         /\ selected_platforms' =
                                (selected_platforms \ {"Everything"})
                                    \cup {platform_key}
                         /\ platform_selection_order' =
                                InsertFront(order1, platform_key)
                ELSE LET sel == selected_platforms \ {platform_key}
                     IN  /\ selected_platforms' = sel
                         /\ btn_checked' =
                                IF sel = {}
                                THEN btn_checked \ {platform_key, "Everything"}
                                ELSE btn_checked \ {platform_key}
                         /\ platform_selection_order' =
                                IF sel = {} THEN <<>>
                                ELSE without(platform_selection_order, platform_key)
        /\ SetView(apply_compatibility_filter(View, current_file_name,
                                              selected_platforms', ignored))
        /\ last_rename' = NoRename
        /\ UNCHANGED <<fs, current_file_path, current_file_name, processed_files,
                       ignored, renames, engine_vars>>

\* the ignore check box or field changes: on_file_selected()
on_ignore_chars_changed(new_ignore) ==
    /\ new_ignore # ignored
    /\ ignored' = new_ignore
    /\ SetView(on_file_selected(View, current_file_path, current_file_name,
                                processed_files, selected_platforms, new_ignore))
    /\ last_rename' = NoRename
    /\ UNCHANGED <<fs, current_file_path, current_file_name, processed_files,
                   selected_platforms, platform_selection_order, btn_checked,
                   renames, engine_vars>>

\* generate_random_filename(), the generator returning random_name
generate_random_filename(random_name) ==
    LET found == find_non_standard_ascii(random_name, ignored) \ ignored
        listed == {c \in CharsOf(random_name) :
                      c \in WindowsExcluded \/ c \in CloudProblematic}
        bad1 == (found \cup listed) \ ignored
        bad_chars == IF selected_platforms # {}
                     THEN bad1 \cup get_length_restriction_chars(
                                        random_name, selected_platforms)
                     ELSE bad1
        v1 == set_leds(set_file_name(View, random_name, bad_chars),
                       random_name, ignored)
    IN  /\ SetView([v1 EXCEPT !.enabled = @ \cup {"rename"}])
        /\ current_file_path' = NoName
        /\ current_file_name' = random_name
        /\ last_rename' = NoRename
        /\ UNCHANGED <<fs, processed_files, selected_platforms,
                       platform_selection_order, btn_checked, ignored, renames,
                       engine_vars>>

\* the user edits the display: FileNameDisplay.on_text_changed, then
\* on_filename_edited(new_text)
on_text_changed(new_text) ==
    LET bad_chars == find_non_standard_ascii(new_text, ignored) \ ignored
        rename_on ==
            IF new_text # current_file_name THEN TRUE
            ELSE /\ selected_platforms # {}
                 /\ ~IsEmptyName(compatibility_filtered_name)
                 /\ compatibility_filtered_name # current_file_name
        v1 == set_leds([View EXCEPT !.text = new_text, !.bad = bad_chars],
                       new_text, ignored)
    IN  /\ new_text # display_text
        /\ SetView([v1 EXCEPT !.enabled = IF rename_on THEN @ \cup {"rename"}
                                          ELSE @ \ {"rename"}])
        /\ last_rename' = NoRename
        /\ UNCHANGED <<fs, current_file_path, current_file_name, processed_files,
                       selected_platforms, platform_selection_order, btn_checked,
                       ignored, renames, engine_vars>>

\* ignore_file()
ignore_file ==
    /\ "ignore" \in enabled
    /\ IF ~IsEmptyName(current_file_path)
       THEN /\ processed_files' = processed_files \cup {current_file_path}
            /\ enabled' = enabled \ ActionButtons
       ELSE UNCHANGED <<processed_files, enabled>>
    /\ last_rename' = NoRename
    /\ UNCHANGED <<fs, current_file_path, current_file_name, selected_platforms,
                   platform_selection_order, btn_checked,
                   compatibility_filtered_name, ignored, display_text,
                   display_bad, app_leds, renames, engine_vars>>

(***************************************************************************)
(* The window: renaming                                                    *)
(***************************************************************************)
\* the test that never finds the target
TargetTaken_Never(files, new_path, old_path) ==
    FALSE

\* new_path.exists() and new_path != old_path
TargetTaken(files, new_path, old_path) ==
    new_path \in files /\ new_path # old_path

\* create_backup that reports success when the copy failed
create_backup_AlwaysTrue(files, source, backup_path, copy_ok) ==
    IF source \in files /\ copy_ok
    THEN [ok |-> TRUE, fs |-> files \cup {FreeBackupName(files, backup_path, 0)}]
    ELSE [ok |-> TRUE, fs |-> files]

\* create_backup(source, backup_path) on the directory files: whether it
\* succeeds and the directory it leaves; copy_ok: the copy succeeds on disk
create_backup(files, source, backup_path, copy_ok) ==
    IF source \in files /\ copy_ok
    THEN [ok |-> TRUE, fs |-> files \cup {FreeBackupName(files, backup_path, 0)}]
    ELSE [ok |-> FALSE, fs |-> files]

\* rename_file that reports success without moving the file
rename_file_NoMove(files, old_path, new_path, move_ok) ==
    [ok |-> TRUE, fs |-> files]

\* rename_file(old_path, new_path) on the directory files; move_ok: the
\* replace succeeds on disk
rename_file(files, old_path, new_path, move_ok) ==
    IF old_path \notin files THEN [ok |-> FALSE, fs |-> files]
    ELSE IF TargetTaken(files, new_path, old_path)
    THEN [ok |-> FALSE, fs |-> files]
    ELSE IF ~is_valid_filename(new_path) THEN [ok |-> FALSE, fs |-> files]
    ELSE IF ~move_ok THEN [ok |-> FALSE, fs |-> files]
    ELSE [ok |-> TRUE, fs |-> (files \ {old_path}) \cup {new_path}]

\* perform_rename(new_name, _): what it returns and leaves behind.
\* fix_accepted: the user takes the fix of the leading/trailing dialog;
\* backup_checked: the backup box; backup_ok, rename_ok: the copy and the
\* rename succeed on disk
perform_rename(new_name, fix_accepted, backup_checked, backup_ok, rename_ok) ==
    LET old == current_file_path
        refused(final, files, called, made, tried) ==
            [fs |-> files, path |-> current_file_path, name |-> current_file_name,
             log |-> [called |-> TRUE, requested |-> new_name, final |-> final,
                      source |-> old, result |-> FALSE, attempted |-> tried,
                      backup_checked |-> backup_checked,
                      backup_called |-> called, backup_made |-> made]]
        issues == check_leading_trailing_issues(new_name)
        fixed_name == Strip(new_name, {" ", "."})
        name2 == IF issues THEN fixed_name ELSE new_name
        backup == IF backup_checked
                  THEN create_backup(fs, old, BackupPrefix \o old, backup_ok)
                  ELSE [ok |-> FALSE, fs |-> fs]
        renamed == rename_file(backup.fs, old, name2, rename_ok)
    IN  IF IsEmptyName(old) \/ IsEmptyName(new_name)
        THEN refused(new_name, fs, FALSE, FALSE, FALSE)
        ELSE IF issues /\ ~(fix_accepted /\ fixed_name # <<>>)
        THEN refused(new_name, fs, FALSE, FALSE, FALSE)
        ELSE IF Strip(name2, Whitespace) = <<>>
        THEN refused(name2, fs, FALSE, FALSE, FALSE)
        ELSE IF TargetTaken(fs, name2, old)
        THEN refused(name2, fs, FALSE, FALSE, FALSE)
        ELSE IF ~is_valid_filename(name2)
        THEN refused(name2, fs, FALSE, FALSE, FALSE)
        ELSE IF backup_checked /\ ~backup.ok
        THEN refused(name2, backup.fs, TRUE, FALSE, FALSE)
        ELSE IF ~renamed.ok
        THEN refused(name2, renamed.fs, backup_checked, backup_checked, TRUE)
        ELSE [fs |-> renamed.fs, path |-> name2, name |-> name2,
              log |-> [called |-> TRUE, requested |-> new_name, final |-> name2,
                       source |-> old, result |-> TRUE, attempted |-> TRUE,
                       backup_checked |-> backup_checked,
                       backup_called |-> backup_checked,
                       backup_made |-> backup_checked]]

\* a handler returns before it reaches perform_rename
ReturnEarly ==
    /\ last_rename' = NoRename
    /\ UNCHANGED <<fs, current_file_path, current_file_name, processed_files,
                   selected_platforms, platform_selection_order, btn_checked,
                   compatibility_filtered_name, ignored, display_text,
                   display_bad, app_leds, enabled, renames, engine_vars>>

\* a handler calls perform_rename(new_name, _) after the preview dialog,
\* which the user may cancel
CallPerformRename(new_name) ==
    \/ ReturnEarly
    \/ \E r \in {perform_rename(new_name, fix_accepted, backup_checked,
                                backup_ok, rename_ok) :
                    fix_accepted \in BOOLEAN, backup_checked \in BOOLEAN,
                    backup_ok \in BOOLEAN, rename_ok \in BOOLEAN} :
          /\ fs' = r.fs
          /\ current_file_path' = r.path
          /\ current_file_name' = r.name
          /\ last_rename' = r.log
          /\ renames' = IF r.fs # fs THEN renames + 1 ELSE renames
          /\ IF r.log.result
             THEN SetView(on_file_selected(View, r.path, r.name, processed_files,
                                           selected_platforms, ignored))
             ELSE UNCHANGED <<display_text, display_bad, app_leds,
                              compatibility_filtered_name, enabled>>
          /\ UNCHANGED <<processed_files, selected_platforms,
                         platform_selection_order, btn_checked, ignored,
                         engine_vars>>

\* rename_current_display()
rename_current_display ==
    /\ "rename" \in enabled
    /\ renames < MaxRenames
    /\ IF IsEmptyName(current_file_path) THEN ReturnEarly
       ELSE IF IsEmptyName(display_text) \/ display_text = current_file_name
       THEN IF selected_platforms # {} /\ ~IsEmptyName(compatibility_filtered_name)
            THEN IF compatibility_filtered_name = current_file_name
                 THEN ReturnEarly
                 ELSE CallPerformRename(compatibility_filtered_name)
            ELSE ReturnEarly
       ELSE CallPerformRename(display_text)

\* auto_rename(), remove_bad_chars(), replace_bad_chars(): the fix is the
\* new name
RenameToFix(button, new_name) ==
    /\ button \in enabled
    /\ renames < MaxRenames
    /\ IF IsEmptyName(current_file_path) THEN ReturnEarly
       ELSE IF new_name = current_file_name THEN ReturnEarly
       ELSE CallPerformRename(new_name)

auto_rename ==
    RenameToFix("auto_rename", auto_fix_name(current_file_name, ignored))

remove_bad_chars_clicked ==
    RenameToFix("remove", remove_bad_chars(current_file_name, ignored))

replace_bad_chars_clicked ==
    RenameToFix("replace", replace_accented_chars(current_file_name, ignored))

\* edit_name(), the dialog accepted with the text typed
edit_name(typed) ==
    LET new_name == Strip(typed, Whitespace)
    IN  /\ "edit" \in enabled
        /\ renames < MaxRenames
        /\ IF IsEmptyName(current_file_path) THEN ReturnEarly
           ELSE IF new_name = <<>> \/ new_name = current_file_name
           THEN ReturnEarly
           ELSE IF new_name \in fs /\ new_name # current_file_path
           THEN ReturnEarly
           ELSE IF is_valid_filename(new_name)
           THEN CallPerformRename(new_name)
           ELSE /\ last_rename' = [NoRename EXCEPT !.requested = new_name]
                /\ UNCHANGED <<fs, current_file_path, current_file_name,
                               processed_files, selected_platforms,
                               platform_selection_order, btn_checked,
                               compatibility_filtered_name, ignored,
                               display_text, display_bad, app_leds, enabled,
                               renames, engine_vars>>

(***************************************************************************)
(* The window: specification                                               *)
(***************************************************************************)
FilesDropped == \E f \in fs : on_files_dropped(f)

PlatformButtonClicked == \E k \in ClickedKeys : on_platform_button_clicked(k)

IgnoreCharsChanged == \E ig \in AppIgnoreSets : on_ignore_chars_changed(ig)

GenerateRandomFilename == \E n \in RandomNames : generate_random_filename(n)

TextEdited == \E t \in TypedTexts : on_text_changed(t)

IgnoreFile == ignore_file

RenameCurrentDisplay == rename_current_display

AutoRename == auto_rename

RemoveBadChars == remove_bad_chars_clicked

ReplaceBadChars == replace_bad_chars_clicked

EditName == \E t \in TypedTexts : edit_name(t)

Next ==
    \/ FilesDropped
    \/ PlatformButtonClicked
    \/ IgnoreCharsChanged
    \/ GenerateRandomFilename
    \/ TextEdited
    \/ IgnoreFile
    \/ RenameCurrentDisplay
    \/ AutoRename
    \/ RemoveBadChars
    \/ ReplaceBadChars
    \/ EditName

Spec == Init /\ [][Next]_vars

(***************************************************************************)
(* The window on a directory of several files: drops, platform buttons,    *)
(* edits of the display, the ignore button and the rename actions          *)
(***************************************************************************)
\* a directory in which a fix of one file is the name of another and in
\* which the filter and the fixes give names with leading or trailing
\* spaces and periods
RenameDir ==
    {<<E_ACUTE>>, <<"e">>, <<" ", "a", "<", ".">>, <<EURO, ".", "a">>}

\* what the user types into the display or the edit dialog
RenameTexts == {<<" ", "a">>, <<"e">>}

InitRename ==
    /\ fs = RenameDir
    /\ current_file_path = NoName
    /\ current_file_name = NoName
    /\ processed_files = {}
    /\ selected_platforms = {}
    /\ platform_selection_order = <<>>
    /\ btn_checked = {}
    /\ compatibility_filtered_name = NoName
    /\ ignored = CommonAllowedChars
    /\ display_text = <<>>
    /\ display_bad = {}
    /\ app_leds = [p \in LedKeys |-> "gray"]
    /\ enabled = {}
    /\ renames = 0
    /\ last_rename = NoRename
    /\ EngineIdle

EverythingClicked == on_platform_button_clicked("Everything")

TextEditedRename == \E t \in RenameTexts : on_text_changed(t)

EditNameRename == \E t \in RenameTexts : edit_name(t)

NextRename ==
    \/ FilesDropped
    \/ EverythingClicked
    \/ TextEditedRename
    \/ IgnoreFile
    \/ RenameCurrentDisplay
    \/ AutoRename
    \/ RemoveBadChars
    \/ ReplaceBadChars
    \/ EditNameRename

SpecRename == InitRename /\ [][NextRename]_vars

(***************************************************************************)
(* The window under file drops and clicks on any platform button           *)
(***************************************************************************)
AnyPlatformButtonClicked ==
    \E k \in Range(platform_keys) : on_platform_button_clicked(k)

NextPlatforms == FilesDropped \/ AnyPlatformButtonClicked

SpecPlatforms == Init /\ [][NextPlatforms]_vars

(***************************************************************************)
(* Inputs of the engine calls                                              *)
(***************************************************************************)
CoreChars == {"a", " ", ".", "<", "!", E_ACUTE}

ShortNames == UNION {[1..k -> CoreChars] : k \in 0..MaxLen}

ExtraNames ==
    {<<"C", "O", "N">>, <<"c", "o", "n", ".", "a">>, <<"a", "/", "a">>,
     <<"a", ":", ".", "a">>, Repeat("a", 205), Repeat("a", 206),
     Repeat("a", 210), Repeat("a", 211), Repeat("a", 256),
     <<"C", "O", "N", ".", "t", "x", "t">>, <<"c", "o", "n", ".", "t", "x", "t">>,
     <<"C", "o", "n">>, <<"c", "o", "n", ".", "a", ".", "a">>,
     <<"a", "<", "b", ".", "t", "x", "t">>, <<"C", "O", "N", ".", "<">>,
     <<"a", " ", ".", "a">>, <<"a", ".", ".", "a">>, <<"a", ".", "a", " ">>,
     <<"a", "a", ".", "a">>}

Names == ShortNames \cup ExtraNames

IgnoreSets == {{}, {"<", E_ACUTE}, {"!", " "}}

Orders ==
    {s \in UNION {[1..k -> ProfileIds] : k \in 0..Cardinality(ProfileIds)} :
        \A i, j \in 1..Len(s) : i # j => s[i] # s[j]}

(***************************************************************************)
(* Filter calls: sanitize, then sanitize the output again                  *)
(***************************************************************************)
InitSanitize ==
    /\ InitApp
    /\ in_name \in Names
    /\ in_platforms \in (SUBSET ProfileIds) \ {{}}
    /\ in_ignore \in IgnoreSets
    /\ visit = <<>>
    /\ pc = "start"
    /\ out1 = None
    /\ out2 = None
    /\ leds = None
    /\ merged = None
    /\ merged_len = None
    /\ led_flags = None
    /\ non_standard = None
    /\ stripped = None
    /\ lookup = None
    /\ valid = None

ApplyFilter ==
    /\ pc = "start"
    /\ out1' = Sanitize(in_name, in_platforms, in_ignore)
    /\ pc' = "filtered"
    /\ UNCHANGED <<in_name, in_platforms, in_ignore, visit, out2, leds,
                   merged, merged_len, led_flags, non_standard, stripped, lookup,
                   valid, app_vars>>

ReapplyFilter ==
    /\ pc = "filtered"
    /\ out2' = Sanitize(out1, in_platforms, in_ignore)
    /\ pc' = "refiltered"
    /\ UNCHANGED <<in_name, in_platforms, in_ignore, visit, out1, leds,
                   merged, merged_len, led_flags, non_standard, stripped, lookup,
                   valid, app_vars>>

NextSanitize == ApplyFilter \/ ReapplyFilter

SpecSanitize == InitSanitize /\ [][NextSanitize]_vars

(***************************************************************************)
(* Evaluation calls: the LED colour of every profile for a name            *)
(***************************************************************************)
InitEvaluate ==
    /\ InitApp
    /\ in_name \in Names
    /\ in_platforms = {}
    /\ in_ignore \in IgnoreSets
    /\ visit = <<>>
    /\ pc = "start"
    /\ out1 = None
    /\ out2 = None
    /\ leds = None
    /\ merged = None
    /\ merged_len = None
    /\ led_flags = None
    /\ non_standard = None
    /\ stripped = None
    /\ lookup = None
    /\ valid = None

Evaluate ==
    /\ pc = "start"
    /\ leds' = update_platform_leds(in_name, in_ignore, ProfileIds)
    /\ led_flags' = IF in_name = <<>> THEN None
                    ELSE [p \in ProfileIds |-> LedFlags(in_name, p)]
    /\ valid' = is_valid_filename(in_name)
    /\ pc' = "evaluated"
    /\ UNCHANGED <<in_name, in_platforms, in_ignore, visit, out1, out2,
                   merged, merged_len, non_standard, stripped,
                   lookup, app_vars>>

NextEvaluate == Evaluate

SpecEvaluate == InitEvaluate /\ [][NextEvaluate]_vars

(***************************************************************************)
(* Merge calls: get_combined_restrictions in every visiting order          *)
(***************************************************************************)
InitMerge ==
    /\ InitApp
    /\ in_name = <<>>
    /\ in_platforms = {}
    /\ in_ignore = {}
    /\ visit \in Orders
    /\ pc = "start"
    /\ out1 = None
    /\ out2 = None
    /\ leds = None
    /\ merged = None
    /\ merged_len = None
    /\ led_flags = None
    /\ non_standard = None
    /\ stripped = None
    /\ lookup = None
    /\ valid = None

Merge ==
    /\ pc = "start"
    /\ merged' = get_combined_restrictions(visit)
    /\ merged_len' = MinLenLoop(visit, 0)
    /\ pc' = "merged"
    /\ UNCHANGED <<in_name, in_platforms, in_ignore, visit, out1, out2, leds,
                   led_flags, non_standard, stripped, lookup,
                   valid, app_vars>>

NextMerge == Merge

SpecMerge == InitMerge /\ [][NextMerge]_vars

(***************************************************************************)
(* CharacterUtils calls: replace, fix, find and remove on a drawn text,    *)
(* with an ignore set or with the argument omitted                         *)
(***************************************************************************)
FixChars == {"a", "<", E_ACUTE, AE_LIG, EURO, DEL}

FixNames == UNION {[1..k -> FixChars] : k \in 0..MaxLen}

FixIgnoreSets == {{}, {E_ACUTE}, {EURO, "<"}, {AE_LIG, DEL}, NoArg}

InitFix ==
    /\ InitApp
    /\ in_name \in FixNames
    /\ in_platforms = {}
    /\ in_ignore \in FixIgnoreSets
    /\ visit = <<>>
    /\ pc = "start"
    /\ out1 = None
    /\ out2 = None
    /\ leds = None
    /\ merged = None
    /\ merged_len = None
    /\ led_flags = None
    /\ non_standard = None
    /\ stripped = None
    /\ lookup = None
    /\ valid = None

ReplaceAccented ==
    /\ pc = "start"
    /\ out1' = replace_accented_chars(in_name, in_ignore)
    /\ pc' = "replaced"
    /\ UNCHANGED <<in_name, in_platforms, in_ignore, visit, out2, leds, merged,
                   merged_len, led_flags, non_standard, stripped, lookup,
                   valid, app_vars>>

AutoFix ==
    /\ pc = "replaced"
    /\ out2' = auto_fix_name(in_name, in_ignore)
    /\ pc' = "fixed"
    /\ UNCHANGED <<in_name, in_platforms, in_ignore, visit, out1, leds, merged,
                   merged_len, led_flags, non_standard, stripped, lookup,
                   valid, app_vars>>

FindAndRemove ==
    /\ pc = "fixed"
    /\ non_standard' = find_non_standard_ascii(in_name, in_ignore)
    /\ stripped' = remove_bad_chars(in_name, in_ignore)
    /\ pc' = "found"
    /\ UNCHANGED <<in_name, in_platforms, in_ignore, visit, out1, out2, leds,
                   merged, merged_len, led_flags, lookup, valid, app_vars>>

NextFix == ReplaceAccented \/ AutoFix \/ FindAndRemove

SpecFix == InitFix /\ [][NextFix]_vars

(***************************************************************************)
(* Calls made with profile ids of which one may not be registered          *)
(***************************************************************************)
UnknownId == "Unknown"

LookupPlatforms ==
    {{UnknownId}, {UnknownId, "Windows"}, {UnknownId, "Linux"}, {"Windows"}}

\* the outcome of a call: the value it returns or the exception it raises
Return(v) == [raised |-> FALSE, value |-> v]

Raise(e) == [raised |-> TRUE, value |-> e]

\* PLATFORM_RESTRICTIONS[platform_key] in the loop of
\* get_combined_restrictions raises KeyError for a key that is not registered
RaisesKeyError(platforms) ==
    \E platform_key \in platforms : platform_key \notin DOMAIN PLATFORM_RESTRICTIONS

InitLookup ==
    /\ InitApp
    /\ in_name \in Names \ {<<>>}
    /\ in_platforms \in LookupPlatforms
    /\ in_ignore \in IgnoreSets
    /\ visit = <<>>
    /\ pc = "start"
    /\ out1 = None
    /\ out2 = None
    /\ leds = None
    /\ merged = None
    /\ merged_len = None
    /\ led_flags = None
    /\ non_standard = None
    /\ stripped = None
    /\ lookup = None
    /\ valid = None

\* the filter, get_length_restriction_chars and update_platform_leds with the
\* ids in_platforms
Lookup ==
    /\ pc = "start"
    /\ lookup' =
           [sanitize |->
                IF RaisesKeyError(in_platforms) THEN Raise("KeyError")
                ELSE Return(Sanitize(in_name, in_platforms, in_ignore)),
            length_chars |->
                Return(get_length_restriction_chars(in_name, in_platforms)),
            leds |->
                Return(update_platform_leds(in_name, in_ignore, in_platforms))]
    /\ pc' = "looked_up"
    /\ UNCHANGED <<in_name, in_platforms, in_ignore, visit, out1, out2, leds,
                   merged, merged_len, led_flags, non_standard, stripped,
                   valid, app_vars>>

NextLookup == Lookup

SpecLookup == InitLookup /\ [][NextLookup]_vars

(***************************************************************************)
(* Properties of the engine                                                *)
(***************************************************************************)
Count(s, c) == Len(SelectSeq(s, LAMBDA x : x = c))

Filtered == pc \in {"filtered", "refiltered"}

MergedOf(platforms) == get_combined_restrictions(SetToSeq(platforms))

\* C1: sanitize is idempotent: sanitizing the output of sanitize again, with
\* the same profiles and ignore set, returns the same string.
C1_SanitizeIdempotent ==
    pc = "refiltered" => out2 = out1

\* C2: the sanitized name raises no position violation when it is evaluated
\* against the merged excluded_positions of the selected profiles.
C2_OutputHasNoPositionIssue ==
    Filtered =>
        ~HasPositionIssues(out1, MergedOf(in_platforms).excluded_positions)

\* C3: after sanitize the output holds no character of the merged
\* excluded_chars or problematic_chars other than space and the ignored
\* characters, and every occurrence of an ignored character of those sets is
\* kept.
C3_RemovableCharsRemoved ==
    Filtered =>
        LET r == MergedOf(in_platforms)
        IN  \A c \in r.excluded_chars \cup r.problematic_chars :
                /\ (c # " " /\ c \notin in_ignore) => ~Contains(out1, c)
                /\ c \in in_ignore => Count(out1, c) = Count(in_name, c)

C3_Witness ==
    /\ pc = "filtered"
    /\ "Cloud" \in in_platforms
    /\ in_ignore = {"<", E_ACUTE}
    /\ in_name = <<"<", "!", "<">>
    /\ out1 = <<"<", "<">>

\* C4: for a non-empty name the colour of a profile is red iff a character of
\* the name is in excluded_chars minus ignore; otherwise purple iff a position,
\* reserved-name, additional-restriction or length check fires; otherwise
\* orange iff a character is in problematic_chars minus ignore; otherwise
\* yellow iff a character is outside 32..126 and not ignored; otherwise green.
C4_SeverityPrecedence ==
    (pc = "evaluated" /\ in_name # <<>>) =>
        \A p \in ProfileIds :
            LET P == PLATFORM_RESTRICTIONS[p]
                red == \E i \in 1..Len(in_name) :
                           in_name[i] \in P.excluded_chars \ in_ignore
                purple ==
                    \/ HasPositionIssues(in_name, Range(P.excluded_positions))
                    \/ HasReservedName(in_name, P.reserved_names)
                    \/ "no_space_period_after_ext" \in P.additional_restrictions
                          /\ NoSpacePeriodAfterExt(in_name)
                    \/ "no_spaces_only" \in P.additional_restrictions
                          /\ NoSpacesOnly(in_name)
                    \/ LengthExceeded(in_name, P)
                orange == \E i \in 1..Len(in_name) :
                              in_name[i] \in P.problematic_chars \ in_ignore
                yellow == \E i \in 1..Len(in_name) :
                              /\ ~InPrintableRange(in_name[i])
                              /\ in_name[i] \notin in_ignore
            IN  /\ leds[p] \in {"red", "purple", "orange", "yellow", "green"}
                /\ leds[p] = "red" <=> red
                /\ leds[p] = "purple" <=> (~red /\ purple)
                /\ leds[p] = "orange" <=> (~red /\ ~purple /\ orange)
                /\ leds[p] = "yellow" <=> (~red /\ ~purple /\ ~orange /\ yellow)
                /\ leds[p] = "green" <=> (~red /\ ~purple /\ ~orange /\ ~yellow)

C4_Witness ==
    /\ pc = "evaluated"
    /\ in_ignore = {}
    /\ in_name = <<"!", "<", E_ACUTE>>
    /\ leds["Cloud"] = "red"
    /\ leds["Linux"] = "yellow"

\* C10: no profile lists the space in excluded_chars or problematic_chars;
\* sanitize drops spaces only by stripping the trailing run (trailing_space)
\* and the leading run (leading_space) of the name left by the character
\* removal; with neither position rule the output has as many spaces as the
\* input.
C10_SpaceOnlyByPosition ==
    /\ \A p \in ProfileIds :
           " " \notin PLATFORM_RESTRICTIONS[p].excluded_chars
                        \cup PLATFORM_RESTRICTIONS[p].problematic_chars
    /\ Filtered =>
        LET r == MergedOf(in_platforms)
            kept == SelectSeq(in_name,
                        LAMBDA x : \/ x = " "
                                   \/ x \in in_ignore
                                   \/ x \notin r.excluded_chars \cup r.problematic_chars)
            t == IF "trailing_space" \in r.excluded_positions
                 THEN RStrip(kept, {" "}) ELSE kept
            l == IF "leading_space" \in r.excluded_positions
                 THEN LStrip(t, {" "}) ELSE t
        IN  /\ Count(out1, " ") = Count(l, " ")
            /\ ({"trailing_space", "leading_space"} \cap r.excluded_positions = {})
                   => Count(out1, " ") = Count(in_name, " ")

C10_Witness ==
    /\ pc = "filtered"
    /\ in_platforms = {"macOS", "Linux"}
    /\ in_name = <<" ", "a", " ">>
    /\ out1 = <<" ", "a", " ">>

(***************************************************************************)
(* Properties of the merge                                                 *)
(***************************************************************************)
UnionOver(ids, field(_)) == UNION {field(PLATFORM_RESTRICTIONS[p]) : p \in ids}

\* C5: merging {Everything} gives the same effective restrictions as merging
\* {Windows, macOS, Linux, Cloud, FAT32}: excluded characters, problematic
\* characters, excluded positions, reserved names, additional restrictions
\* and length bound.
C5_EverythingEqualsAllOthers ==
    (pc = "merged" /\ Range(visit) = SpecificIds) =>
        /\ merged = get_combined_restrictions(<<"Everything">>)
        /\ merged_len = MinLenLoop(<<"Everything">>, 0)
        /\ UnionOver(SpecificIds, LAMBDA P : P.reserved_names)
             = PLATFORM_RESTRICTIONS["Everything"].reserved_names
        /\ UnionOver(SpecificIds, LAMBDA P : P.additional_restrictions)
             = PLATFORM_RESTRICTIONS["Everything"].additional_restrictions

C7_MergeIsUnionAnyOrder ==
    pc = "merged" =>
        LET ids == Range(visit)
            lens == {PLATFORM_RESTRICTIONS[p].max_filename_length : p \in ids} \ {0}
        IN  /\ merged.excluded_chars = UnionOver(ids, LAMBDA P : P.excluded_chars)
            /\ merged.problematic_chars
                 = UnionOver(ids, LAMBDA P : P.problematic_chars)
            /\ merged.excluded_positions
                 = UnionOver(ids, LAMBDA P : Range(P.excluded_positions))
            /\ IF lens = {} THEN merged_len = 0
               ELSE merged_len \in lens /\ \A n \in lens : merged_len <= n
            /\ merged = get_combined_restrictions(SetToSeq(ids))
            /\ merged = get_combined_restrictions(
                            [i \in 1..Len(visit) |-> visit[Len(visit) + 1 - i]])
            /\ \A k \in 0..Len(visit) :
                   merged.excluded_chars
                     = get_combined_restrictions(SubSeq(visit, 1, k)).excluded_chars
                       \cup get_combined_restrictions(
                               SubSeq(visit, k + 1, Len(visit))).excluded_chars
            /\ visit = <<>> =>
                   merged = [excluded_chars |-> {}, problematic_chars |-> {},
                             excluded_positions |-> {}]

C7_Witness ==
    /\ pc = "merged"
    /\ visit = <<"macOS", "Windows">>
    /\ merged.excluded_chars = WindowsExcluded
    /\ merged.excluded_positions = {"trailing_space", "trailing_period"}
    /\ merged_len = 255

(***************************************************************************)
(* Claims on the window                                                    *)
(***************************************************************************)
\* C8: whenever a handler changes what the filename display shows (file
\* selection, text edit, compatibility filter, random name), the set of bad
\* characters it hands to the display holds no character of the ignore set.
C8_IgnoredNeverHandedToDisplay ==
    [][(display_text' # display_text \/ display_bad' # display_bad)
          => display_bad' \cap ignored' = {}]_vars

HasInvalidChar(name) == \E i \in 1..Len(name) : name[i] \in InvalidChars

\* C9: whatever the ignore set, a rename whose new name holds a character of
\* the validator's invalid set is refused, and the files on disk, the
\* current file path and the current file name stay as they were.
C9_InvalidCharRenameRefused ==
    [][HasInvalidChar(last_rename'.requested)
          => /\ ~last_rename'.result
             /\ fs' = fs
             /\ current_file_path' = current_file_path
             /\ current_file_name' = current_file_name]_vars

C9_Witness ==
    /\ last_rename.called
    /\ HasInvalidChar(last_rename.requested)
    /\ \E i \in 1..Len(last_rename.requested) :
           /\ last_rename.requested[i] \in InvalidChars
           /\ last_rename.requested[i] \in ignored
    /\ ~last_rename.result
    /\ current_file_path \in fs

(***************************************************************************)
(* Claims on CharacterUtils                                                *)
(***************************************************************************)
\* C11: every character of auto_fix_name(text, I) is standard ASCII (code
\* point 32..126) or a member of I; with I empty the output holds only
\* standard-ASCII characters and find_non_standard_ascii of it is empty.
C11_AutoFixOutputStandard ==
    (pc \in {"fixed", "found"} /\ in_ignore # NoArg) =>
        /\ \A i \in 1..Len(out2) :
               InPrintableRange(out2[i]) \/ out2[i] \in in_ignore
        /\ in_ignore = {} =>
               /\ \A i \in 1..Len(out2) : InPrintableRange(out2[i])
               /\ find_non_standard_ascii(out2, {}) = {}

C11_Witness ==
    /\ pc = "fixed"
    /\ in_ignore = {EURO, "<"}
    /\ in_name = <<E_ACUTE, EURO, DEL>>
    /\ out2 = <<"e", EURO>>

\* the concatenation of a sequence of strings
RECURSIVE Flatten(_)
Flatten(pieces) ==
    IF pieces = <<>> THEN <<>>
    ELSE Flatten(SubSeq(pieces, 1, Len(pieces) - 1)) \o pieces[Len(pieces)]

\* C12: replace_accented_chars rewrites each character on its own and in
\* order: an ignored character stays as it is even when ACCENT_MAP has it,
\* any other ACCENT_MAP character becomes its equivalent, every other
\* character stays; a non-ASCII character without entry is still in the
\* output of replace_accented_chars and is gone only after remove_bad_chars.
C12_ReplacePerCharacter ==
    (pc \in {"replaced", "fixed", "found"} /\ in_ignore # NoArg) =>
        /\ out1 = Flatten([i \in 1..Len(in_name) |->
                      IF in_name[i] \in in_ignore THEN <<in_name[i]>>
                      ELSE IF in_name[i] \in DOMAIN ACCENT_MAP
                           THEN ACCENT_MAP[in_name[i]]
                      ELSE <<in_name[i]>>])
        /\ \A c \in CharsOf(in_name) :
               (~InPrintableRange(c) /\ c \notin DOMAIN ACCENT_MAP) =>
                   /\ Count(out1, c) = Count(in_name, c)
                   /\ (pc # "replaced" /\ c \notin in_ignore) => ~Contains(out2, c)

C12_Witness ==
    /\ pc = "fixed"
    /\ in_ignore = {E_ACUTE}
    /\ in_name = <<E_ACUTE, AE_LIG, EURO>>
    /\ out1 = <<E_ACUTE, "a", "e", EURO>>
    /\ out2 = <<E_ACUTE, "a", "e">>

(***************************************************************************)
(* Claims on the LED checks                                                *)
(***************************************************************************)
\* the index of the last period of a name, 0 when it has none
LastPeriod(name) ==
    IF \E i \in 1..Len(name) : name[i] = "."
    THEN CHOOSE i \in 1..Len(name) :
             name[i] = "." /\ \A j \in (i + 1)..Len(name) : name[j] # "."
    ELSE 0

\* the name cut at its last period (the whole name when it has none)
Stem(name) ==
    IF LastPeriod(name) = 0 THEN name ELSE SubSeq(name, 1, LastPeriod(name) - 1)

HasExcludedChar(name, p, ignore_chars) ==
    \E i \in 1..Len(name) :
        name[i] \in PLATFORM_RESTRICTIONS[p].excluded_chars \ ignore_chars

CON_txt == <<"C", "O", "N", ".", "t", "x", "t">>

con_txt == <<"c", "o", "n", ".", "t", "x", "t">>

\* C13: for a profile with reserved names the reserved-name check fires iff
\* the name cut at its last period, upper-cased, is the upper-cased form of a
\* reserved name; such a name is purple when it has no excluded character
\* ("CON.txt" and "con.txt" on Windows) and a name with an excluded character
\* ("a<b.txt") is red.
C13_ReservedNameCaseInsensitive ==
    (pc = "evaluated" /\ in_name # <<>>) =>
        /\ \A p \in ProfileIds :
               LET reserved == \E n \in PLATFORM_RESTRICTIONS[p].reserved_names :
                                   Upper(n) = Upper(Stem(in_name))
               IN  /\ led_flags[p].has_reserved_name <=> reserved
                   /\ (reserved /\ ~HasExcludedChar(in_name, p, in_ignore))
                          => leds[p] = "purple"
                   /\ HasExcludedChar(in_name, p, in_ignore) => leds[p] = "red"
        /\ in_name \in {CON_txt, con_txt} => leds["Windows"] = "purple"
        /\ (in_name = <<"a", "<", "b", ".", "t", "x", "t">> /\ in_ignore = {})
               => leds["Windows"] = "red"

C13_Witness ==
    /\ pc = "evaluated"
    /\ in_name = con_txt
    /\ led_flags["Windows"].has_reserved_name
    /\ ~led_flags["Windows"].has_position_issues
    /\ ~led_flags["Windows"].has_additional_restrictions
    /\ leds["Windows"] = "purple"
    /\ leds["Linux"] = "green"

\* C14: under every profile whose reserved_names holds "." and "..", the
\* reserved-name check fires for the name "." and for the name "..".
C14_SentinelNamesReserved ==
    (pc = "evaluated" /\ in_name \in {<<".">>, <<".", ".">>}) =>
        \A p \in ProfileIds :
            {<<".">>, <<".", ".">>} \subseteq PLATFORM_RESTRICTIONS[p].reserved_names
                => led_flags[p].has_reserved_name

\* the checks other than no_space_period_after_ext that set
\* has_additional_restrictions
OtherAdditional(name, p) ==
    \/ Len(name) > 205
    \/ \A i \in 1..Len(name) : name[i] \in Whitespace

\* C15: under a profile with no_space_period_after_ext the restriction fires
\* exactly when the name has a period and the part before its last period
\* ends with a space or a period; the extension never triggers it; a name
\* like "aa.a" is not flagged and a name whose stem ends with a space or a
\* period is purple (when it has no excluded character).
C15_NoSpacePeriodBeforeExtension ==
    (pc = "evaluated" /\ in_name # <<>>) =>
        \A p \in ProfileIds :
            "no_space_period_after_ext"
                    \in PLATFORM_RESTRICTIONS[p].additional_restrictions =>
                LET stem == Stem(in_name)
                    fires == /\ LastPeriod(in_name) # 0
                             /\ stem # <<>>
                             /\ stem[Len(stem)] \in {" ", "."}
                IN  /\ ~OtherAdditional(in_name, p) =>
                           (led_flags[p].has_additional_restrictions <=> fires)
                    /\ (fires /\ ~HasExcludedChar(in_name, p, in_ignore))
                           => leds[p] = "purple"
                    /\ in_name = <<"a", "a", ".", "a">> => leds[p] = "green"

C15_Witness ==
    /\ pc = "evaluated"
    /\ in_name = <<"a", " ", ".", "a">>
    /\ led_flags["Windows"].has_additional_restrictions
    /\ ~led_flags["Windows"].has_position_issues
    /\ ~led_flags["Windows"].has_reserved_name
    /\ leds["Windows"] = "purple"

\* the checks other than the length checks that set
\* has_additional_restrictions
NonLengthAdditional(name) ==
    \/ LastPeriod(name) # 0 /\ Stem(name) # <<>>
          /\ Stem(name)[Len(Stem(name))] \in {" ", "."}
    \/ \A i \in 1..Len(name) : name[i] \in Whitespace

\* C16: the length check fires exactly when len(name) > max_filename_length
\* or len(name) > max_path_length - 50, which with the registered data is a
\* length above 210 on Windows, Cloud, FAT32 and Everything and above 205 on
\* macOS and Linux; a name that fires it is purple when it has no excluded
\* character.
C16_LengthCheck ==
    (pc = "evaluated" /\ in_name # <<>>) =>
        \A p \in ProfileIds :
            LET P == PLATFORM_RESTRICTIONS[p]
                fires == \/ Len(in_name) > P.max_filename_length
                         \/ Len(in_name) > P.max_path_length - 50
            IN  /\ fires <=> Len(in_name) >
                                 (IF p \in {"macOS", "Linux"} THEN 205 ELSE 210)
                /\ ~NonLengthAdditional(in_name) =>
                       (led_flags[p].has_additional_restrictions <=> fires)
                /\ (fires /\ ~HasExcludedChar(in_name, p, in_ignore))
                       => leds[p] = "purple"

C16_Witness ==
    /\ pc = "evaluated"
    /\ Len(in_name) = 206
    /\ led_flags["Linux"].has_additional_restrictions
    /\ ~led_flags["Windows"].has_additional_restrictions
    /\ leds["Linux"] = "purple"
    /\ leds["Windows"] = "green"

\* C17: an empty name is green under every profile and every ignore set.
C17_EmptyNameGreen ==
    (pc = "evaluated" /\ in_name = <<>>) =>
        \A p \in ProfileIds : leds[p] = "green"

\* C18: the CharacterUtils operations return a string or a set for every
\* text, the empty text included, and for every ignore argument, the omitted
\* one included: none of them raises.
C18_EngineOperationsTotal ==
    /\ pc \in {"replaced", "fixed", "found"} => out1 # TypeError
    /\ pc \in {"fixed", "found"} => out2 # TypeError
    /\ pc = "found" => stripped # TypeError

(***************************************************************************)
(* Claims on profile ids                                                   *)
(***************************************************************************)
\* C19: a call made with a profile id that is not registered fails: the
\* filter, the length lookup and the evaluation raise instead of returning a
\* result.
C19_UnknownProfileFails ==
    (pc = "looked_up" /\ ~(in_platforms \subseteq ProfileIds)) =>
        /\ lookup.sanitize.raised
        /\ lookup.length_chars.raised
        /\ lookup.leds.raised

(***************************************************************************)
(* Claims on the filter: names made of periods                             *)
(***************************************************************************)
\* C20: when trailing_period is among the merged excluded_positions, a name
\* made only of one or more periods is sanitized to the empty string.
C20_OnlyPeriodsSanitizeToEmpty ==
    (/\ Filtered
     /\ in_name # <<>>
     /\ \A i \in 1..Len(in_name) : in_name[i] = "."
     /\ "trailing_period" \in MergedOf(in_platforms).excluded_positions)
        => out1 = <<>>

C20_Witness ==
    /\ pc = "filtered"
    /\ in_name = <<".", ".", ".">>
    /\ in_platforms = {"Windows"}
    /\ out1 = <<>>

(***************************************************************************)
(* Claims on renaming                                                      *)
(***************************************************************************)
\* C21: the name handed to rename_file is never empty or made of whitespace
\* only and never begins or ends with a space or a period, whichever handler
\* called perform_rename and whatever the user answers in the fix dialog.
C21_NoRenameToUnusableName ==
    [][last_rename'.attempted =>
          LET final == last_rename'.final
          IN  /\ final # <<>>
              /\ final # NoName
              /\ \E i \in 1..Len(final) : final[i] \notin Whitespace
              /\ final[1] \notin {" ", "."}
              /\ final[Len(final)] \notin {" ", "."}]_vars

C21_Witness ==
    /\ last_rename.attempted
    /\ last_rename.result
    /\ last_rename.requested = <<"a", ".">>
    /\ last_rename.final = <<"a">>
    /\ <<"a">> \in fs

(***************************************************************************)
(* Claims on the platform selection                                        *)
(***************************************************************************)
\* C22: whenever Everything is in selected_platforms, every other profile is
\* in selected_platforms too.
C22_EverythingImpliesAll ==
    "Everything" \in selected_platforms
        => selected_platforms = Range(platform_keys)

\* C23: after every step platform_selection_order holds exactly the elements
\* of selected_platforms, each once, and a specific platform whose button was
\* just checked is at the front of the list.
C23_SelectionOrderMatches ==
    [][/\ Range(platform_selection_order') = selected_platforms'
       /\ Len(platform_selection_order') = Cardinality(selected_platforms')
       /\ \A k \in Range(platform_keys) \ {"Everything"} :
              (/\ k \notin btn_checked
               /\ k \in btn_checked'
               /\ "Everything" \notin btn_checked')
                  => /\ platform_selection_order' # <<>>
                     /\ Head(platform_selection_order') = k]_vars

C23_Witness ==
    /\ platform_selection_order = <<"Linux", "Windows", "macOS">>
    /\ selected_platforms = {"Linux", "Windows", "macOS"}
    /\ btn_checked = {"Linux", "Windows", "macOS"}

(***************************************************************************)
(* Claims on the agreement of the profiles and of the validator            *)
(***************************************************************************)
\* the severity order Green < Yellow < Orange < Purple < Red
Rank(colour) ==
    CASE colour = "green" -> 0
      [] colour = "yellow" -> 1
      [] colour = "orange" -> 2
      [] colour = "purple" -> 3
      [] colour = "red" -> 4

\* C24: for every non-empty name and ignore set the severity of the
\* Everything profile is at least the severity of each of Windows, macOS,
\* Linux, Cloud and FAT32.
C24_EverythingMostRestrictive ==
    (pc = "evaluated" /\ in_name # <<>>) =>
        \A p \in SpecificIds : Rank(leds["Everything"]) >= Rank(leds[p])

\* C30: with the empty ignore set every non-empty name that is green on
\* Windows is accepted by is_valid_filename.
C30_GreenOnWindowsIsValid ==
    (/\ pc = "evaluated"
     /\ in_name # <<>>
     /\ in_ignore = {}
     /\ leds["Windows"] = "green")
        => valid

\* b is a backup of source: "BACKUP of <source>", with or without a counter
IsBackupOf(b, source) ==
    /\ Len(b) >= Len(BackupPrefix \o source)
    /\ SubSeq(b, 1, Len(BackupPrefix \o source)) = BackupPrefix \o source

\* C25: with the backup box checked perform_rename calls rename_file only
\* after create_backup succeeded, a backup of the source then being in the
\* directory; when create_backup fails rename_file is not called,
\* perform_rename returns False and the directory and the tracked file are
\* as before.
C25_BackupBeforeRename ==
    [][last_rename'.called =>
          /\ (last_rename'.backup_checked /\ last_rename'.attempted) =>
                 /\ last_rename'.backup_called
                 /\ last_rename'.backup_made
                 /\ \E b \in fs' \ fs :
                        /\ IsBackupOf(b, last_rename'.source)
                        /\ b # last_rename'.final
          /\ (last_rename'.backup_called /\ ~last_rename'.backup_made) =>
                 /\ ~last_rename'.attempted
                 /\ ~last_rename'.result
                 /\ fs' = fs
                 /\ current_file_path' = current_file_path
                 /\ current_file_name' = current_file_name]_vars

C25_Witness ==
    /\ last_rename.backup_checked
    /\ last_rename.backup_made
    /\ last_rename.result
    /\ last_rename.source = <<EURO, ".", "a">>
    /\ last_rename.final = <<"a">>
    /\ BackupPrefix \o <<EURO, ".", "a">> \in fs
    /\ <<EURO, ".", "a">> \notin fs

\* C26: a rename never overwrites another file: when the target exists and
\* is not the source, perform_rename refuses before any backup and leaves the
\* directory as it is; rename_file moves the source only onto a free name (or
\* onto itself), so that no name of the directory other than the source is
\* lost and nothing but a backup and the target is added.
C26_NoOverwrite ==
    [][last_rename'.called =>
          LET log == last_rename'
          IN  /\ (log.final \in fs /\ log.final # log.source) =>
                     /\ ~log.result
                     /\ ~log.backup_called
                     /\ ~log.attempted
                     /\ fs' = fs
              /\ fs \ {log.source} \subseteq fs'
              /\ log.result =>
                     /\ log.final \notin fs \/ log.final = log.source
                     /\ Cardinality(fs') =
                            Cardinality(fs) + (IF log.backup_made THEN 1 ELSE 0)
              /\ ~log.result =>
                     /\ fs \subseteq fs'
                     /\ \A b \in fs' \ fs : IsBackupOf(b, log.source)]_vars

C26_Witness ==
    /\ last_rename.called
    /\ last_rename.source = <<E_ACUTE>>
    /\ last_rename.final = <<"e">>
    /\ ~last_rename.result
    /\ ~last_rename.backup_called
    /\ {<<E_ACUTE>>, <<"e">>} \subseteq fs

\* C27: whenever perform_rename returns False, current_file_path and
\* current_file_name are unchanged; when it returns True both are the new
\* path and the new name, the file is in the directory under the new name
\* and no longer under the old one (unless the two are the same).
C27_TrackedFileChangesOnSuccessOnly ==
    [][last_rename'.called =>
          IF last_rename'.result
          THEN /\ current_file_path' = last_rename'.final
               /\ current_file_name' = last_rename'.final
               /\ last_rename'.final \in fs'
               /\ last_rename'.final # last_rename'.source
                      => last_rename'.source \notin fs'
          ELSE /\ current_file_path' = current_file_path
               /\ current_file_name' = current_file_name]_vars

C27_Witness ==
    /\ last_rename.called
    /\ last_rename.result
    /\ last_rename.source = <<" ", "a", "<", ".">>
    /\ last_rename.requested = <<"a", ".">>
    /\ current_file_path = <<"a">>
    /\ current_file_name = <<"a">>
    /\ <<"a">> \in fs
    /\ <<" ", "a", "<", ".">> \notin fs

(***************************************************************************)
(* Claims on ignored files and on the stored filtered name                 *)
(***************************************************************************)
\* C28: a path in processed_files is never passed to rename_file.
C28_IgnoredFileNeverRenamed ==
    [][last_rename'.attempted
          => last_rename'.source \notin processed_files]_vars

\* C29: compatibility_filtered_name is None when no platform is selected (or
\* no name is set) and otherwise the filter output for current_file_name, the
\* selected platforms and the current ignore set.
C29_FilteredNameNeverStale ==
    compatibility_filtered_name =
        IF current_file_name = NoName \/ selected_platforms = {} THEN NoName
        ELSE Sanitize(current_file_name, selected_platforms, ignored)

====
